---- MODULE Spec2Model ----
(***************************************************************************)
(* GenericTestHandler<Function, Comparator>                                *)
(* (epi_judge_cpp/test_framework/generic_test_handler.h).                  *)
(*                                                                         *)
(* The handler checks a test-data header against the signature of the      *)
(* tested function (ParseSignature) and runs one test row (RunTest):       *)
(* it deserializes the arguments and the expected value, invokes the       *)
(* function under a timer and compares the result with the expected value. *)
(* The template parameters are state that is fixed by Init; the helpers    *)
(* the header only includes (MatchFunctionSignature, ParseSerializedArgs,  *)
(* SerializationTraits::Parse, InvokeWithTimer, TestTimer, TestOutput) and *)
(* the loop that feeds the rows follow the written specification.          *)
(***************************************************************************)
EXTENDS Integers, Sequences, FiniteSets, TLC

\* ------------------------------------------------------------------ bounds
MaxArgs == 2       \* longest parameter list of a tested function
NumRows == 2       \* data rows of the test table
MaxCallTime == 1   \* longest time one call of the tested function takes

\* ------------------------------------------------------- types and values
Void == "void"
Types == {"int", "string"}
Fields == {"1", "2", "x"}

Tuples(S, n) == UNION {[1..k -> S] : k \in 0..n}

Last(s) == s[Len(s)]

IntVal(n) == [t |-> "int", n |-> n]
StrVal(s) == [t |-> "string", s |-> s]
NoValue == [t |-> "none"]
NoOutput == [t |-> "no_output"]

IntOf == ("1" :> 1) @@ ("2" :> 2)
Digits == <<"0", "1", "2", "3", "4", "5", "6", "7", "8", "9">>
ToStr(n) == Digits[n + 1]

Ok(v) == [ok |-> TRUE, val |-> v]
Err == [ok |-> FALSE, val |-> NoValue]

\* SerializationTraits<T>::Parse: a string field to a value of type T.
Parse(T, f) ==
  IF T = "int"
    THEN (IF f \in DOMAIN IntOf THEN Ok(IntVal(IntOf[f])) ELSE Err)
    ELSE Ok(StrVal(f))

\* ParseSerializedArgs<arg_tuple_t>(begin, end): the fields of [begin, end),
\* one per parameter, each parsed as the type of its position.
ParseSerializedArgs(types, fields) ==
  IF Len(fields) # Len(types)
    THEN Err
    ELSE LET vals == [i \in 1..Len(types) |-> Parse(types[i], fields[i])]
         IN IF \E i \in 1..Len(types) : ~vals[i].ok
              THEN Err
              ELSE Ok([i \in 1..Len(types) |-> vals[i].val])

\* MatchFunctionSignature<ExpectedT, ArgTuple>(begin, end): one tag per
\* parameter, then one for the expected value unless it is void.
MatchFunctionSignature(expectedT, argTuple, tags) ==
  LET want == IF expectedT = Void THEN argTuple ELSE Append(argTuple, expectedT)
  IN /\ Len(tags) = Len(want)
     /\ \A i \in 1..Len(want) : tags[i] = want[i]

\* ------------------------------------------------------------------ state
VARIABLES
  arg_tuple_t,             \* FunctionalTraits<Function>::arg_tuple_t
  return_t,                \* FunctionalTraits<Function>::return_t
  has_default_comparator,  \* Comparator is DefaultComparator
  arg1_t,                  \* BiPredicateTraits<Comparator>::arg1_t
  suite,                   \* "init", "running", "aborted", "done"
  arg_types,               \* the header handed to ParseSignature
  rowIdx,                  \* rows started so far
  pc,                      \* position inside the current row
  test_args,               \* the row handed to RunTest
  args,                    \* deserialized arguments
  expected,                \* deserialized expected value
  result,                  \* value returned by the tested function
  callOutcome,             \* "none", "returned", "TestFailureException", "OtherException"
  now,                     \* monotonic clock, restarted with every row
  callDur,                 \* time the tested function itself took
  timer,                   \* TestTimer
  output,                  \* test_output_t returned by RunTest
  exc,                     \* exception leaving ParseSignature or RunTest
  rowStatus,               \* "Pending", "Passed", "Failed", "Aborted"
  failedSeen,              \* an earlier row ended Failed
  log                      \* what the current row has done, in order

vars == <<arg_tuple_t, return_t, has_default_comparator, arg1_t, suite,
          arg_types, rowIdx, pc, test_args, args, expected, result,
          callOutcome, now, callDur, timer, output, exc, rowStatus,
          failedSeen, log>>

config == <<arg_tuple_t, return_t, has_default_comparator, arg1_t>>
rowVars == <<test_args, args, expected, result, callOutcome, now, callDur,
             timer, output, log>>

\* ------------------------------------------------- the handler's own types
expected_value_t == IF has_default_comparator THEN return_t ELSE arg1_t

ExpectedIsVoid == expected_value_t = Void

ArgumentCount == Len(arg_tuple_t)

\* static_assert: expected type and return type are either both void or not.
StaticAssert == (expected_value_t = Void) = (return_t = Void)

\* ------------------------------------------- members func_ and comp_
RECURSIVE Sum(_)
Sum(vals) ==
  IF vals = <<>> THEN 0
  ELSE (IF vals[1].t = "int" THEN vals[1].n ELSE 0) + Sum(Tail(vals))

\* func_: the tested function, here the sum of its integer arguments.
func_(a) ==
  IF return_t = "int" THEN IntVal(Sum(a)) ELSE StrVal(ToStr(Sum(a)))

Canon(v) == IF v.t = "int" THEN ToStr(v.n) ELSE v.s

\* comp_: DefaultComparator is equality; the custom comparator compares the
\* canonical forms, so its first argument need not have the return type.
comp_(e, r) ==
  IF has_default_comparator THEN e = r ELSE Canon(e) = Canon(r)

NewTimer == [running |-> FALSE, start |-> 0, elapsed |-> 0]

Init ==
  /\ arg_tuple_t \in Tuples(Types, MaxArgs)
  /\ return_t \in Types \cup {Void}
  /\ has_default_comparator \in BOOLEAN
  /\ arg1_t \in Types \cup {Void}
  /\ has_default_comparator => arg1_t = return_t
  /\ ~has_default_comparator => arg1_t \in Types
  /\ StaticAssert
  /\ suite = "init"
  /\ arg_types = <<>>
  /\ rowIdx = 0
  /\ pc = "idle"
  /\ test_args = <<>>
  /\ args = <<>>
  /\ expected = NoValue
  /\ result = NoValue
  /\ callOutcome = "none"
  /\ now = 0
  /\ callDur = 0
  /\ timer = NewTimer
  /\ output = NoOutput
  /\ exc = "none"
  /\ rowStatus = "Pending"
  /\ failedSeen = FALSE
  /\ log = <<>>

\* ------------------------------------------------------------ ParseSignature
Headers == Tuples(Types \cup {Void}, MaxArgs + 1)

\* ParseSignature matching the header against ret_t, the alias it declares
\* and never uses, in the place of expected_value_t.
SignatureMatches_ReturnType(tags) ==
  MatchFunctionSignature(return_t, arg_tuple_t, tags)

\* The check ParseSignature makes: the header against expected_value_t and
\* arg_tuple_t.
SignatureMatches(tags) ==
  MatchFunctionSignature(expected_value_t, arg_tuple_t, tags)

\* ParseSignature swallowing the mismatch it found.
ParseSignature_NoThrow(tags) ==
  /\ suite = "init"
  /\ arg_types' = tags
  /\ suite' = "running"
  /\ exc' = "none"
  /\ UNCHANGED <<config, rowIdx, pc, rowVars, rowStatus, failedSeen>>

\* ParseSignature(arg_types).  A mismatch throws, which ends the test program.
ParseSignature(tags) ==
  /\ suite = "init"
  /\ arg_types' = tags
  /\ IF SignatureMatches(tags)
       THEN suite' = "running" /\ exc' = "none"
       ELSE suite' = "aborted" /\ exc' = "SignatureMismatch"
  /\ UNCHANGED <<config, rowIdx, pc, rowVars, rowStatus, failedSeen>>

\* ------------------------------------------------------------------ the rows
Rows == Tuples(Fields, MaxArgs + 1)

\* The loop over the data rows hands the next row to RunTest.
StartRow(row) ==
  /\ suite = "running"
  /\ pc \in {"idle", "rowDone"}
  /\ rowIdx < NumRows
  /\ rowIdx' = rowIdx + 1
  /\ test_args' = row
  /\ pc' = "RunTest"
  /\ args' = <<>>
  /\ expected' = NoValue
  /\ result' = NoValue
  /\ callOutcome' = "none"
  /\ now' = 0
  /\ callDur' = 0
  /\ timer' = NewTimer
  /\ output' = NoOutput
  /\ exc' = "none"
  /\ rowStatus' = "Pending"
  /\ failedSeen' = (failedSeen \/ rowStatus = "Failed")
  /\ log' = <<>>
  /\ UNCHANGED <<config, suite, arg_types>>

\* Every error of RunTest thrown as the exception that only fails the row.
Throw_AsTestFailure(e) ==
  /\ pc' = "threw"
  /\ exc' = "TestFailureException"

\* An exception leaves RunTest.
Throw(e) ==
  /\ pc' = "threw"
  /\ exc' = e

\* The process dies (an outcome of undefined behaviour in a checked build).
Crash ==
  /\ pc' = "crashed"
  /\ exc' = "Crash"

\* [cbegin(test_args), cend(test_args) - (ExpectedIsVoid() ? 0 : 1))
ArgFields(row) ==
  SubSeq(row, 1, Len(row) - (IF ExpectedIsVoid THEN 0 ELSE 1))

\* The function invoked first and the expected value parsed afterwards.
ValueImplNext_InvokeFirst(step) ==
  CASE step = "entry" -> "InvokeStart"
    [] step = "Invoke" -> "ParseExpected"
    [] step = "ParseExpected" -> "Compare"

\* The order of ParseExpectedAndInvokeImpl(ExpectedIsValueTag): the expected
\* value is parsed, the function is invoked, the two are compared.
ValueImplNext(step) ==
  CASE step = "entry" -> "ParseExpected"
    [] step = "ParseExpected" -> "InvokeStart"
    [] step = "Invoke" -> "Compare"

\* RunTest, first statement: the arguments are deserialized.  On an empty row
\* of a function with an expected value, cend - 1 lies before cbegin, which
\* is undefined: ParseSerializedArgs sees a distance of -1 and throws, or a
\* checked build stops the program.
RunTest_ParseArgs ==
  /\ pc = "RunTest"
  /\ now' = now + 1
  /\ log' = Append(log, "ParseArgs")
  /\ IF ~ExpectedIsVoid /\ Len(test_args) = 0
       THEN /\ \/ Throw("DeserializationError")
               \/ Crash
            /\ args' = args
       ELSE LET r == ParseSerializedArgs(arg_tuple_t, ArgFields(test_args))
            IN IF r.ok
                 THEN /\ args' = r.val
                      /\ pc' = "back"
                      /\ exc' = exc
                 ELSE /\ Throw("DeserializationError")
                      /\ args' = args
  /\ UNCHANGED <<config, suite, arg_types, rowIdx, test_args, expected,
                 result, callOutcome, callDur, timer, output, rowStatus,
                 failedSeen>>

\* RunTest, second statement: test_args.back() is bound and
\* ParseExpectedAndInvoke dispatches on expected_tag.  back() of an empty
\* row (possible here only for a void function without parameters) is
\* undefined: the reference is never read, or a checked build stops.
RunTest_Back ==
  /\ pc = "back"
  /\ log' = Append(log, "Back")
  /\ LET go == /\ pc' = (IF ExpectedIsVoid THEN "InvokeStart"
                                           ELSE ValueImplNext("entry"))
               /\ exc' = exc
     IN IF Len(test_args) = 0 THEN go \/ Crash ELSE go
  /\ UNCHANGED <<config, suite, arg_types, rowIdx, test_args, args, expected,
                 result, callOutcome, now, callDur, timer, output, rowStatus,
                 failedSeen>>

\* SerializationTraits<expected_value_t>::Parse(serialized_expected)
ParseExpected ==
  /\ pc = "ParseExpected"
  /\ now' = now + 1
  /\ log' = Append(log, "ParseExpected")
  /\ LET r == Parse(expected_value_t, Last(test_args))
     IN IF r.ok
          THEN /\ expected' = r.val
               /\ pc' = ValueImplNext("ParseExpected")
               /\ exc' = exc
          ELSE /\ Throw("DeserializationError")
               /\ expected' = expected
  /\ UNCHANGED <<config, suite, arg_types, rowIdx, test_args, args, result,
                 callOutcome, callDur, timer, output, rowStatus, failedSeen>>

\* TestTimer timer; Invoke(timer, args, ...): InvokeWithTimer starts the timer,
InvokeStart ==
  /\ pc = "InvokeStart"
  /\ timer' = [running |-> TRUE, start |-> now, elapsed |-> 0]
  /\ log' = Append(log, "TimerStart")
  /\ pc' = "InvokeCall"
  /\ UNCHANGED <<config, suite, arg_types, rowIdx, test_args, args, expected,
                 result, callOutcome, now, callDur, output, exc, rowStatus,
                 failedSeen>>

CallOutcomes == {"returned", "TestFailureException", "OtherException"}

\* calls func_ with the arguments, which returns or throws,
InvokeCall ==
  /\ pc = "InvokeCall"
  /\ \E o \in CallOutcomes, d \in 0..MaxCallTime :
       /\ callOutcome' = o
       /\ result' = IF o = "returned" /\ return_t # Void
                      THEN func_(args) ELSE NoValue
       /\ now' = now + d
       /\ callDur' = d
  /\ log' = Append(log, "Call")
  /\ pc' = "InvokeStop"
  /\ UNCHANGED <<config, suite, arg_types, rowIdx, test_args, args, expected,
                 timer, output, exc, rowStatus, failedSeen>>

\* and stops the timer, whether the call returned or threw.
InvokeStop ==
  /\ pc = "InvokeStop"
  /\ timer' = [timer EXCEPT !.running = FALSE, !.elapsed = now - timer.start]
  /\ log' = Append(log, "TimerStop")
  /\ IF callOutcome = "returned"
       THEN /\ pc' = (IF ExpectedIsVoid THEN "ReturnVoid"
                                        ELSE ValueImplNext("Invoke"))
            /\ exc' = exc
       ELSE Throw(callOutcome)
  /\ UNCHANGED <<config, suite, arg_types, rowIdx, test_args, args, expected,
                 result, callOutcome, now, callDur, output, rowStatus,
                 failedSeen>>

\* The verdict of the comparator dropped.
ValueOutput_AlwaysPassed(e, r, tm) ==
  [passed |-> TRUE, elapsed |-> tm.elapsed, expected |-> e, actual |-> r]

\* A timer that never ran returned in the place of the one Invoke used.
ValueOutput_FreshTimer(e, r, tm) ==
  [passed |-> comp_(e, r), elapsed |-> NewTimer.elapsed, expected |-> e,
   actual |-> r]

\* The expected value and the result handed over in each other's place.
ValueOutput_Swapped(e, r, tm) ==
  [passed |-> comp_(e, r), elapsed |-> tm.elapsed, expected |-> r,
   actual |-> e]

\* {comp_(expected, result), timer, std::move(expected), std::move(result)}
ValueOutput(e, r, tm) ==
  [passed |-> comp_(e, r), elapsed |-> tm.elapsed, expected |-> e,
   actual |-> r]

\* The void version reporting a failed comparison that never took place.
VoidOutput_NotPassed(tm) ==
  [passed |-> FALSE, elapsed |-> tm.elapsed, expected |-> NoValue,
   actual |-> NoValue]

\* {true, timer}
VoidOutput(tm) ==
  [passed |-> TRUE, elapsed |-> tm.elapsed, expected |-> NoValue,
   actual |-> NoValue]

\* ParseExpectedAndInvokeImpl(ExpectedIsValueTag) returns.
Compare ==
  /\ pc = "Compare"
  /\ now' = now + 1
  /\ log' = Append(log, "Comp")
  /\ output' = ValueOutput(expected, result, timer)
  /\ pc' = "returned"
  /\ UNCHANGED <<config, suite, arg_types, rowIdx, test_args, args, expected,
                 result, callOutcome, callDur, timer, exc, rowStatus,
                 failedSeen>>

\* ParseExpectedAndInvokeImpl(ExpectedIsVoidTag) returns.
ReturnVoid ==
  /\ pc = "ReturnVoid"
  /\ output' = VoidOutput(timer)
  /\ pc' = "returned"
  /\ UNCHANGED <<config, suite, arg_types, rowIdx, test_args, args, expected,
                 result, callOutcome, now, callDur, timer, exc, rowStatus,
                 failedSeen, log>>

\* ------------------------------------------------- the loop around RunTest
\* RunTest returned a TestOutput: the row passed or failed.
Record ==
  /\ pc = "returned"
  /\ rowStatus' = IF output.passed THEN "Passed" ELSE "Failed"
  /\ pc' = "rowDone"
  /\ UNCHANGED <<config, suite, arg_types, rowIdx, rowVars, exc, failedSeen>>

\* RunTest threw: TestFailureException fails the row and the run goes on,
\* any other exception terminates testing.
Catch ==
  /\ pc = "threw"
  /\ IF exc = "TestFailureException"
       THEN /\ rowStatus' = "Failed"
            /\ pc' = "rowDone"
            /\ suite' = suite
       ELSE /\ rowStatus' = "Aborted"
            /\ pc' = "halt"
            /\ suite' = "aborted"
  /\ UNCHANGED <<config, arg_types, rowIdx, rowVars, exc, failedSeen>>

\* The process died: nothing runs after it.
Died ==
  /\ pc = "crashed"
  /\ suite = "running"
  /\ rowStatus' = "Aborted"
  /\ suite' = "aborted"
  /\ UNCHANGED <<config, arg_types, rowIdx, pc, rowVars, exc, failedSeen>>

\* Every row has been run.
Finish ==
  /\ suite = "running"
  /\ pc = "rowDone"
  /\ rowIdx = NumRows
  /\ suite' = "done"
  /\ UNCHANGED <<config, arg_types, rowIdx, pc, rowVars, exc, rowStatus,
                 failedSeen>>

Next ==
  \/ \E tags \in Headers : ParseSignature(tags)
  \/ \E row \in Rows : StartRow(row)
  \/ RunTest_ParseArgs
  \/ RunTest_Back
  \/ ParseExpected
  \/ InvokeStart
  \/ InvokeCall
  \/ InvokeStop
  \/ Compare
  \/ ReturnVoid
  \/ Record
  \/ Catch
  \/ Died
  \/ Finish

Spec == Init /\ [][Next]_vars

\* ------------------------------------------------------------ vocabulary
Positions(e) == {i \in 1..Len(log) : log[i] = e}
Happened(e) == Positions(e) # {}
Times(e) == Cardinality(Positions(e))
AllBefore(a, b) == \A i \in Positions(a), j \in Positions(b) : i < j

SignatureChecked == suite # "init"
SignatureSucceeded == suite # "init" /\ exc # "SignatureMismatch"
SignatureFailed == exc = "SignatureMismatch"

\* The tag the k-th position of a header has to carry, by the declared
\* parameter and return types of the function.
DeclaredTag(k) == IF k <= ArgumentCount THEN arg_tuple_t[k] ELSE return_t
DeclaredLen == ArgumentCount + (IF return_t = Void THEN 0 ELSE 1)
MatchesDeclared(tags) ==
  /\ Len(tags) = DeclaredLen
  /\ \A k \in 1..Len(tags) : tags[k] = DeclaredTag(k)

\* The same with the type of the expected value in the last position.
ExpectedTag(k) ==
  IF k <= ArgumentCount THEN arg_tuple_t[k]
  ELSE (IF has_default_comparator THEN return_t ELSE arg1_t)
MatchesExpected(tags) ==
  /\ Len(tags) = DeclaredLen
  /\ \A k \in 1..Len(tags) : tags[k] = ExpectedTag(k)

\* A header with one tag changed, one tag dropped or one tag added.
OneTagChanged(tags) ==
  UNION {{[tags EXCEPT ![k] = t] : t \in (Types \cup {Void}) \ {tags[k]}} :
           k \in 1..Len(tags)}
OneTagDropped(tags) ==
  {SubSeq(tags, 1, k - 1) \o SubSeq(tags, k + 1, Len(tags)) : k \in 1..Len(tags)}
OneTagAdded(tags) ==
  {SubSeq(tags, 1, k) \o <<t>> \o SubSeq(tags, k + 1, Len(tags)) :
     k \in 0..Len(tags), t \in Types \cup {Void}}
Damaged(tags) == OneTagChanged(tags) \cup OneTagDropped(tags) \cup OneTagAdded(tags)

RowArgs == ParseSerializedArgs(arg_tuple_t,
                               SubSeq(test_args, 1, Len(test_args) - 1)).val
RowExpected == Parse(expected_value_t, Last(test_args)).val
RowActual == func_(RowArgs)

TwoIntSum ==
  /\ arg_tuple_t = <<"int", "int">>
  /\ return_t = "int"
  /\ has_default_comparator

\* C2: for a non-void function the TestOutput of RunTest carries the parse
\* of the row's last field as expected, the function's result on the
\* arguments decoded from the fields before it as actual, and the
\* comparator's verdict on the two as passed; the two-int sum function on
\* the row [1,1,2] passes with 2 and 2, on [1,1,1] fails with 1 and 2.
C2_RunTestOutput ==
  (output # NoOutput /\ ~ExpectedIsVoid) =>
     /\ output.expected = RowExpected
     /\ output.actual = RowActual
     /\ output.passed = comp_(RowExpected, RowActual)
     /\ (TwoIntSum /\ test_args = <<"1", "1", "2">>) =>
          (output.passed /\ output.expected = IntVal(2)
                         /\ output.actual = IntVal(2))
     /\ (TwoIntSum /\ test_args = <<"1", "1", "1">>) =>
          (~output.passed /\ output.expected = IntVal(1)
                          /\ output.actual = IntVal(2))

C2_Witness ==
  /\ TwoIntSum
  /\ test_args = <<"1", "1", "1">>
  /\ output # NoOutput
  /\ ~output.passed
  /\ output.actual = IntVal(2)

\* ------------------------------------------------------------------ C3
\* C3: a TestOutput of a void function has neither expected nor actual and
\* has passed; a TestOutput of a non-void function has both.
C3_ExpectedAndActual ==
  output # NoOutput =>
     IF return_t = Void
       THEN output.expected = NoValue /\ output.actual = NoValue /\ output.passed
       ELSE output.expected # NoValue /\ output.actual # NoValue

C3_Witness ==
  /\ return_t = Void
  /\ output # NoOutput
  /\ Happened("Call")

\* ------------------------------------------------------- rows, by content
RowStarted == rowIdx > 0 /\ pc # "idle"

\* The row has the wrong number of fields or a field that does not parse
\* as the type of its position.
RowBad(row) ==
  \/ Len(row) # DeclaredLen
  \/ \E k \in 1..DeclaredLen : ~Parse(ExpectedTag(k), row[k]).ok
RowGood(row) == ~RowBad(row)

\* Valid arguments followed by an expected field that does not parse.
ValidArgsBadExpected(row) ==
  /\ ~ExpectedIsVoid
  /\ Len(row) = ArgumentCount + 1
  /\ ParseSerializedArgs(arg_tuple_t, SubSeq(row, 1, Len(row) - 1)).ok
  /\ ~Parse(expected_value_t, Last(row)).ok

Decoding == {"RunTest", "back", "ParseExpected"}
FatalError == exc \in {"DeserializationError", "OtherException", "Crash"}

\* ------------------------------------------------------------------ C4
\* C4: a row whose comparator returns false, or whose function throws
\* TestFailureException, ends Failed; a Failed row never aborts the suite,
\* and while rows are left the next one can be started after it.
C4_FailedRowGoesOn ==
  /\ (pc = "rowDone" /\ output # NoOutput /\ ~ExpectedIsVoid
        /\ ~comp_(RowExpected, RowActual)) => rowStatus = "Failed"
  /\ (pc = "rowDone" /\ callOutcome = "TestFailureException") =>
        (rowStatus = "Failed" /\ exc = "TestFailureException")
  /\ rowStatus = "Failed" => (pc = "rowDone" /\ suite \in {"running", "done"})
  /\ (rowStatus = "Failed" /\ rowIdx < NumRows) =>
        (suite = "running" /\ ENABLED (\E row \in Rows : StartRow(row)))
  /\ (rowStatus = "Failed" /\ suite = "running") =>
        ~ENABLED (Next /\ suite' = "aborted")
  /\ suite = "done" => rowIdx = NumRows

\* A row is evaluated after an earlier row failed.
C4_Witness ==
  /\ failedSeen
  /\ rowIdx = NumRows
  /\ Happened("Comp")
  /\ rowStatus = "Passed"

\* ------------------------------------------------------------------ C5
\* C5: after an unparseable field, a malformed field count or an exception
\* of the function other than TestFailureException the row has no
\* TestOutput and no verdict, every step leads to the aborted suite without
\* invoking anything, and nothing happens in the aborted suite.
C5_FatalAborts ==
  /\ FatalError => (output = NoOutput /\ rowStatus \in {"Pending", "Aborted"})
  /\ FatalError =>
       ~ENABLED (Next /\ (suite' # "aborted" \/ log' # log \/ rowIdx' # rowIdx))
  /\ suite = "aborted" => ~ENABLED Next
  /\ (RowStarted /\ RowBad(test_args)) =>
       /\ output = NoOutput
       /\ rowStatus \in {"Pending", "Aborted"}
       /\ (pc \notin Decoding => FatalError)
  /\ (callOutcome = "OtherException" /\ pc # "InvokeStop") =>
       exc = "OtherException"
  /\ (suite = "aborted" /\ rowIdx > 0) => FatalError

\* The suite aborted on the first row with a row left to run.
C5_Witness ==
  /\ suite = "aborted"
  /\ exc = "OtherException"
  /\ rowIdx = 1
  /\ rowIdx < NumRows
  /\ output = NoOutput

\* ------------------------------------------------------------------ C6
\* C6: a row is started, decoded or invoked only after ParseSignature
\* accepted the header; a header that does not match aborts the suite with
\* no row started.
C6_SignatureFirst ==
  /\ (rowIdx > 0 \/ log # <<>> \/ pc # "idle") =>
       (SignatureChecked /\ MatchesExpected(arg_types))
  /\ (SignatureChecked /\ ~MatchesExpected(arg_types)) =>
       /\ suite = "aborted"
       /\ exc = "SignatureMismatch"
       /\ rowIdx = 0
       /\ log = <<>>
       /\ output = NoOutput
       /\ ~ENABLED Next
  /\ ~SignatureChecked => ~ENABLED (\E row \in Rows : StartRow(row))

\* A header of the wrong length aborted the suite.
C6_Witness ==
  /\ SignatureFailed
  /\ Len(arg_types) # DeclaredLen
  /\ suite = "aborted"
  /\ rowIdx = 0

\* ------------------------------------------------------------------ C7
\* C7 as stated: a row with the wrong number of fields (an empty row
\* included) or with an unparseable field makes RunTest fail with a
\* deserialization error: the function is not invoked, the comparator not
\* called, no TestOutput returned.
C7_AsStated ==
  (RowStarted /\ RowBad(test_args)) =>
     /\ ~Happened("Call")
     /\ ~Happened("Comp")
     /\ output = NoOutput
     /\ exc \in {"none", "DeserializationError"}
     /\ (pc \notin Decoding => exc = "DeserializationError")

\* What remains of C7: every malformed row that is not empty fails with a
\* deserialization error, nothing invoked, compared or returned.
C7_NonEmptyRows ==
  (RowStarted /\ RowBad(test_args) /\ test_args # <<>>) =>
     /\ ~Happened("Call")
     /\ ~Happened("Comp")
     /\ output = NoOutput
     /\ exc \in {"none", "DeserializationError"}
     /\ (pc \notin Decoding => exc = "DeserializationError")

\* ------------------------------------------------------------------ C8
\* C8: the timer runs only around the call of the function: arguments and
\* expected value are decoded before it starts, the comparator runs after
\* it stopped, it is stopped after a call that threw as after one that
\* returned, and the elapsed time is the time of the call, never negative.
C8_TimedWindow ==
  /\ timer.running => pc \in {"InvokeCall", "InvokeStop"}
  /\ AllBefore("ParseArgs", "TimerStart")
  /\ AllBefore("ParseExpected", "TimerStart")
  /\ AllBefore("TimerStop", "Comp")
  /\ \A i \in Positions("TimerStart") : i < Len(log) => log[i + 1] = "Call"
  /\ \A i \in Positions("Call") : i < Len(log) => log[i + 1] = "TimerStop"
  /\ Happened("Comp") => (Happened("ParseExpected") /\ Happened("TimerStop"))
  /\ (Happened("Call") /\ pc # "InvokeStop") =>
       (~timer.running /\ Happened("TimerStop"))
  /\ timer.elapsed >= 0
  /\ Happened("TimerStop") => timer.elapsed = callDur
  /\ output # NoOutput => (output.elapsed >= 0 /\ output.elapsed = callDur)

\* The timer was stopped after a call that threw, with time elapsed.
C8_Witness ==
  /\ callOutcome = "TestFailureException"
  /\ pc = "threw"
  /\ ~timer.running
  /\ timer.elapsed = MaxCallTime
  /\ timer.elapsed > 0

\* ------------------------------------------------------------------ C9
\* C9 as stated: the expected field is decoded after the function was
\* invoked, so a row with valid arguments and an unparseable expected field
\* fails only after the function has run.
C9_AsStated ==
  /\ \A i \in Positions("ParseExpected") :
        \E j \in Positions("Call") : j < i
  /\ (RowStarted /\ ValidArgsBadExpected(test_args) /\ pc = "threw") =>
        Happened("Call")

RowOrder ==
  IF ExpectedIsVoid
    THEN <<"ParseArgs", "Back", "TimerStart", "Call", "TimerStop">>
    ELSE <<"ParseArgs", "Back", "ParseExpected", "TimerStart", "Call",
           "TimerStop", "Comp">>

\* C9, amended: a row decodes its arguments, then (non-void) its expected
\* field, then invokes the function, then compares, then passes or fails;
\* the expected field is decoded before the invocation, so a row with valid
\* arguments and an unparseable expected field fails with a deserialization
\* error and the function never runs.
C9_PhaseOrder ==
  /\ Len(log) <= Len(RowOrder)
  /\ log = SubSeq(RowOrder, 1, Len(log))
  /\ (~ExpectedIsVoid /\ Happened("Call")) =>
        (expected # NoValue /\ AllBefore("ParseExpected", "Call"))
  /\ (rowStatus \in {"Passed", "Failed"}) =>
        (pc = "rowDone" /\ Happened("Call"))
  /\ rowStatus = "Passed" => log = RowOrder
  /\ (RowStarted /\ ValidArgsBadExpected(test_args)) =>
        /\ ~Happened("Call")
        /\ (pc \notin Decoding =>
              (exc = "DeserializationError" /\ Happened("ParseExpected")))

\* A row with valid arguments failed on its expected field.
C9_Witness ==
  /\ RowStarted
  /\ ValidArgsBadExpected(test_args)
  /\ ArgumentCount > 0
  /\ pc = "threw"
  /\ exc = "DeserializationError"
  /\ ~Happened("Call")

\* ------------------------------------------------------------------ C10
RowEnded == pc \in {"returned", "rowDone", "threw", "halt", "crashed"}

\* C10 as stated: in one RunTest the function is invoked at most once, and
\* exactly once when all decoding succeeds; the comparator is called once
\* per non-void row whose invocation returned and never for a void
\* function; a row is started only when the row before it has its
\* TestOutput or its failure.
C10_AsStated ==
  /\ Times("Call") <= 1
  /\ (RowStarted /\ RowGood(test_args) /\ RowEnded) => Times("Call") = 1
  /\ Times("Comp") <= 1
  /\ (~ExpectedIsVoid /\ callOutcome = "returned"
        /\ pc \in {"returned", "rowDone"}) => Times("Comp") = 1
  /\ ExpectedIsVoid => Times("Comp") = 0
  /\ ENABLED (\E row \in Rows : StartRow(row)) =>
        (rowIdx = 0 \/ output # NoOutput \/ exc = "TestFailureException")

\* What remains of C10: the same, with the rows that are not empty invoked
\* exactly once when their decoding succeeds.
C10_NonEmptyRows ==
  /\ Times("Call") <= 1
  /\ (RowStarted /\ RowGood(test_args) /\ RowEnded /\ test_args # <<>>) =>
        Times("Call") = 1
  /\ Times("Comp") <= 1
  /\ (~ExpectedIsVoid /\ callOutcome = "returned"
        /\ pc \in {"returned", "rowDone"}) => Times("Comp") = 1
  /\ ExpectedIsVoid => Times("Comp") = 0
  /\ ENABLED (\E row \in Rows : StartRow(row)) =>
        (rowIdx = 0 \/ output # NoOutput \/ exc = "TestFailureException")

====
